---- MODULE Spec2Model ----
(***************************************************************************)
(* Model of src/best-sql.py: the class SqliteConnection, a process-wide    *)
(* singleton sqlite3 connection with generic table operations.             *)
(*                                                                         *)
(* The store is a SQLite file holding two tables, people and pets, each    *)
(* declared (id INTEGER PRIMARY KEY, name); "ghost" names a table that     *)
(* does not exist and "bogus" a column that does not exist.  The           *)
(* caller is the script at the end of the file: it calls one operation,    *)
(* prints what came back, and goes on to the next call.  The engine        *)
(* is modelled by the Exec* operators: what cursor.execute does to the     *)
(* store and what it reports (rows, rowcount, lastrowid, or an error).     *)
(* The interpreter is Python >= 3.12, where Connection.autocommit exists;  *)
(* every statement commits, and a failed statement changes nothing.        *)
(***************************************************************************)
EXTENDS Integers, Sequences, FiniteSets, TLC

VARIABLES
    _conn,      \* SqliteConnection._conn: None or the connection object
    connects,   \* number of sqlite3.connect calls made so far
    db,         \* contents of db.sqlite3: table name -> set of rows
    last        \* the call whose result the caller holds: operation,
                \* arguments, outcome (op = "" between calls)

vars == <<_conn, connects, db, last>>

\* ---------------------------------------------------------------- bounds
MaxId == 1
MaxVal == 1
MaxRows == 2

\* ------------------------------------------------------------ the values
None == -2

NoConn == 0

Ids == -1..MaxId

Vals == 1..MaxVal

Tables == {"people", "pets"}

TableNames == Tables \cup {"ghost"}

Columns == {"id", "name"}

ColumnNames == Columns \cup {"bogus"}

\* the value bound to an unknown column is never looked at
FieldVals(c) ==
    IF c = "id" THEN Ids \cup {None}
    ELSE IF c \in Columns THEN Vals \cup {None}
    ELSE {None}

\* every **kwargs mapping a caller can pass: column name -> value
Kwargs ==
    UNION { { f \in [S -> Ids \cup Vals \cup {None}] :
                \A c \in S : f[c] \in FieldVals(c) } : S \in SUBSET ColumnNames }

NoKwargs == [c \in {} |-> None]

\* ------------------------------------------------------- returned values
RetBool(b) == [kind |-> "bool", bool |-> b, rows |-> <<>>, exc |-> ""]

RetRows(s) == [kind |-> "rows", bool |-> FALSE, rows |-> s, exc |-> ""]

RetRow(r) == [kind |-> "row", bool |-> FALSE, rows |-> <<r>>, exc |-> ""]

RetNone == [kind |-> "none", bool |-> FALSE, rows |-> <<>>, exc |-> ""]

RetHandle == [kind |-> "handle", bool |-> FALSE, rows |-> <<>>, exc |-> ""]

Raises(e) == [kind |-> "raise", bool |-> FALSE, rows |-> <<>>, exc |-> e]

\* ------------------------------------------------------------ the engine
\* SQL equality: a comparison with NULL is never true
SqlEq(a, b) == a # None /\ b # None /\ a = b

\* rows of a rowid table come back in ascending rowid (= id) order
RECURSIVE Scan(_)
Scan(S) ==
    IF S = {} THEN <<>>
    ELSE LET m == CHOOSE r \in S : \A q \in S : r.id <= q.id
         IN  <<m>> \o Scan(S \ {m})

Ok(d, rows, rowcount, lastrowid) ==
    [err |-> "", db |-> d, rows |-> rows, rowcount |-> rowcount, lastrowid |-> lastrowid]

Failed(d, e) ==
    [err |-> e, db |-> d, rows |-> <<>>, rowcount |-> -1, lastrowid |-> None]

\* SELECT * FROM t
ExecSelectAll(d, t) ==
    IF t \notin Tables THEN Failed(d, "OperationalError")
    ELSE Ok(d, Scan(d[t]), -1, None)

\* SELECT * FROM t WHERE id = ?
ExecSelectById(d, t, item_id) ==
    IF t \notin Tables THEN Failed(d, "OperationalError")
    ELSE Ok(d, Scan({r \in d[t] : SqlEq(r.id, item_id)}), -1, None)

\* the WHERE clause of get_by_expression: "k1 = ? OR k2 = ? ..."
MatchesAll(r, kwargs) == \A c \in DOMAIN kwargs : SqlEq(r[c], kwargs[c])

Conditions(r, kwargs) == \E c \in DOMAIN kwargs : SqlEq(r[c], kwargs[c])

\* SELECT * FROM t WHERE <conditions>
ExecSelectWhere(d, t, kwargs) ==
    IF \/ t \notin Tables
       \/ DOMAIN kwargs = {}
       \/ ~(DOMAIN kwargs \subseteq Columns)
    THEN Failed(d, "OperationalError")
    ELSE Ok(d, Scan({r \in d[t] : Conditions(r, kwargs)}), -1, None)

\* the SET clause applied to one row
SetEverything(r, kwargs) == [c \in Columns |-> IF c \in DOMAIN kwargs THEN kwargs[c] ELSE None]

SetClause(r, kwargs) == [c \in Columns |-> IF c \in DOMAIN kwargs THEN kwargs[c] ELSE r[c]]

\* UPDATE t SET <set_clause> WHERE id = ?
ExecUpdate(d, t, item_id, kwargs) ==
    IF \/ t \notin Tables
       \/ DOMAIN kwargs = {}
       \/ ~(DOMAIN kwargs \subseteq Columns)
    THEN Failed(d, "OperationalError")
    ELSE LET hit  == {r \in d[t] : SqlEq(r.id, item_id)}
             rest == d[t] \ hit
             new  == {SetClause(r, kwargs) : r \in hit}
         IN  IF \E r \in new : r.id = None
             THEN Failed(d, "IntegrityError")        \* datatype mismatch
             ELSE IF \E r \in new : \E q \in rest : q.id = r.id
             THEN Failed(d, "IntegrityError")        \* UNIQUE constraint failed
             ELSE Ok([d EXCEPT ![t] = rest \cup new], <<>>, Cardinality(hit), None)

\* the rowid the engine assigns when the statement gives none
NewRowid(S) ==
    IF S = {} THEN 1
    ELSE (CHOOSE m \in {r.id : r \in S} : \A r \in S : r.id <= m) + 1

\* INSERT INTO t (<columns>) VALUES (<placeholders>)
ExecInsert(d, t, kwargs) ==
    IF \/ t \notin Tables
       \/ DOMAIN kwargs = {}
       \/ ~(DOMAIN kwargs \subseteq Columns)
    THEN Failed(d, "OperationalError")
    ELSE LET given == [c \in Columns |-> IF c \in DOMAIN kwargs THEN kwargs[c] ELSE None]
             row   == IF given.id = None
                      THEN [given EXCEPT !.id = NewRowid(d[t])]
                      ELSE given
         IN  IF \E q \in d[t] : q.id = row.id
             THEN Failed(d, "IntegrityError")        \* UNIQUE constraint failed
             ELSE Ok([d EXCEPT ![t] = @ \cup {row}], <<>>, 1, row.id)

\* DELETE FROM t WHERE id = ?
KeepsEverything(S, item_id) == S

Remaining(S, item_id) == {r \in S : ~SqlEq(r.id, item_id)}

ExecDelete(d, t, item_id) ==
    IF t \notin Tables THEN Failed(d, "OperationalError")
    ELSE Ok([d EXCEPT ![t] = Remaining(d[t], item_id)], <<>>,
            Cardinality(d[t]) - Cardinality(Remaining(d[t], item_id)), None)

\* ---------------------------------------------------------- the bounds
TotalRows(d) == Cardinality(UNION {{<<t, r.id>> : r \in d[t]} : t \in Tables})

Bounded(d) ==
    /\ TotalRows(d) <= MaxRows
    /\ \A t \in Tables : \A r \in d[t] : r.id <= MaxId

\* ---------------------------------------------------------- the class
\* "if cls._conn is None"
Always(c) == TRUE

IsUnset(c) == c = NoConn

\* get_connection: connect on first use, afterwards the same object
Connected ==
    /\ _conn' = IF IsUnset(_conn) THEN connects + 1 ELSE _conn
    /\ connects' = IF IsUnset(_conn) THEN connects + 1 ELSE connects

Call(op, t, item_id, kwargs, ret, printed, executed, reported) ==
    [op |-> op, table |-> t, id |-> item_id, fields |-> kwargs, ret |-> ret,
     printed |-> printed, executed |-> executed, reported |-> reported]

NoCall == Call("", "", None, NoKwargs, RetNone, "", FALSE, None)

\* the caller is between two calls
Idle == last.op = ""

Init ==
    /\ _conn = NoConn
    /\ connects = 0
    /\ db = [t \in Tables |-> {}]
    /\ last = NoCall

get_connection ==
    /\ Idle
    /\ Connected
    /\ last' = Call("get_connection", "", None, NoKwargs, RetHandle, "", FALSE, None)
    /\ UNCHANGED db

get_cursor ==
    /\ Idle
    /\ Connected
    /\ last' = Call("get_cursor", "", None, NoKwargs, RetHandle, "", FALSE, None)
    /\ UNCHANGED db

\* what get_all(table_name) gives back on store d
GetAll(d, table_name) ==
    LET ex == ExecSelectAll(d, table_name)
    IN  IF ex.err # "" THEN Raises(ex.err) ELSE RetRows(ex.rows)

get_all ==
    /\ Idle
    /\ \E table_name \in TableNames :
         /\ Connected
         /\ last' = Call("get_all", table_name, None, NoKwargs,
                         GetAll(db, table_name), "", TRUE, None)
         /\ UNCHANGED db

\* dict(fetchone()) if fetchone() else None: the test consumes the first row
\* and dict() is given the second fetch
FetchTwice(rows) ==
    IF Len(rows) = 0 THEN RetNone
    ELSE IF Len(rows) = 1 THEN Raises("TypeError")
    ELSE RetRow(rows[2])

\* what get_by_id(table_name, item_id) gives back on store d
GetById(d, table_name, item_id) ==
    LET ex == ExecSelectById(d, table_name, item_id)
    IN  IF ex.err # "" THEN Raises(ex.err) ELSE FetchTwice(ex.rows)

get_by_id ==
    /\ Idle
    /\ \E table_name \in TableNames, item_id \in Ids :
         /\ Connected
         /\ last' = Call("get_by_id", table_name, item_id, NoKwargs,
                         GetById(db, table_name, item_id), "", TRUE, None)
         /\ UNCHANGED db

\* what get_by_expression(table_name, **kwargs) gives back on store d
GetByExpression(d, table_name, kwargs) ==
    LET ex == ExecSelectWhere(d, table_name, kwargs)
    IN  IF ex.err # "" THEN Raises(ex.err) ELSE RetRows(ex.rows)

get_by_expression ==
    /\ Idle
    /\ \E table_name \in TableNames, kwargs \in Kwargs :
         /\ Connected
         /\ last' = Call("get_by_expression", table_name, None, kwargs,
                         GetByExpression(db, table_name, kwargs), "", TRUE, None)
         /\ UNCHANGED db

\* "if not kwargs: return False"
NeverEmpty(kwargs) == FALSE

NotKwargs(kwargs) == DOMAIN kwargs = {}

\* "return cursor.rowcount > 0", "return cursor.lastrowid > 0"
NotNegative(n) == n >= 0

Positive(n) == n > 0

\* "except Exception as e: print(...); return False"
Reraise(ex) == Raises(ex.err)

Swallow(ex) == RetBool(FALSE)

update_table ==
    /\ Idle
    /\ \E table_name \in TableNames, item_id \in Ids, kwargs \in Kwargs :
         IF NotKwargs(kwargs)
         THEN /\ last' = Call("update_table", table_name, item_id, kwargs,
                              RetBool(FALSE), "", FALSE, None)
              /\ UNCHANGED <<_conn, connects, db>>
         ELSE LET ex == ExecUpdate(db, table_name, item_id, kwargs)
              IN  /\ Connected
                  /\ db' = ex.db
                  /\ last' = IF ex.err # ""
                             THEN Call("update_table", table_name, item_id, kwargs,
                                       Swallow(ex), "Error updating table", TRUE, None)
                             ELSE Call("update_table", table_name, item_id, kwargs,
                                       RetBool(Positive(ex.rowcount)), "", TRUE,
                                       ex.rowcount)

insert_into_table ==
    /\ Idle
    /\ \E table_name \in TableNames, kwargs \in Kwargs :
         IF NotKwargs(kwargs)
         THEN /\ last' = Call("insert_into_table", table_name, None, kwargs,
                              RetBool(FALSE), "", FALSE, None)
              /\ UNCHANGED <<_conn, connects, db>>
         ELSE LET ex == ExecInsert(db, table_name, kwargs)
              IN  /\ Bounded(ex.db)
                  /\ Connected
                  /\ db' = ex.db
                  /\ last' = IF ex.err # ""
                             THEN Call("insert_into_table", table_name, None, kwargs,
                                       Swallow(ex), "Error inserting into table", TRUE,
                                       None)
                             ELSE Call("insert_into_table", table_name, None, kwargs,
                                       RetBool(Positive(ex.lastrowid)), "", TRUE,
                                       ex.lastrowid)

delete_from_table ==
    /\ Idle
    /\ \E table_name \in TableNames, item_id \in Ids :
         LET ex == ExecDelete(db, table_name, item_id)
         IN  /\ Connected
             /\ db' = ex.db
             /\ last' = IF ex.err # ""
                        THEN Call("delete_from_table", table_name, item_id, NoKwargs,
                                  Swallow(ex), "Error deleting from table", TRUE, None)
                        ELSE Call("delete_from_table", table_name, item_id, NoKwargs,
                                  RetBool(Positive(ex.rowcount)), "", TRUE, ex.rowcount)

\* the caller prints the result it holds and moves on
print_result ==
    /\ ~Idle
    /\ last' = NoCall
    /\ UNCHANGED <<_conn, connects, db>>

Next ==
    \/ get_connection
    \/ get_cursor
    \/ get_all
    \/ get_by_id
    \/ get_by_expression
    \/ update_table
    \/ insert_into_table
    \/ delete_from_table
    \/ print_result

Spec == Init /\ [][Next]_vars

\* ------------------------------------------------------------ the claims

\* C1: a successful insert_into_table followed by get_by_id with the row
\* identifier the store assigned yields a row mapping (not None, not an
\* exception) whose fields are the inserted values.
C1_InsertThenGetById ==
    (last.op = "insert_into_table" /\ last.ret.bool)
        => LET got == GetById(db, last.table, last.reported)
           IN  /\ got.kind = "row"
               /\ \A c \in DOMAIN last.fields :
                    last.fields[c] # None => got.rows[1][c] = last.fields[c]

\* C2: get_by_id returns the row whose id column equals the id when there
\* is one, and returns None exactly when no row has that id.
C2_GetByIdFindsRow ==
    (last.op = "get_by_id" /\ last.table \in Tables)
        => LET hit == {r \in db[last.table] : r.id = last.id}
           IN  /\ hit # {} => (last.ret.kind = "row" /\ last.ret.rows[1] \in hit)
               /\ last.ret.kind = "none" <=> hit = {}

\* C3: update_table, insert_into_table and delete_from_table always hand a
\* boolean back, never an exception; when the statement fails (unknown
\* table, unknown column, or any error the call reports on standard output)
\* the boolean is false and the store is what it was before the call.
C3_MutatorsNeverRaise ==
    [][ last'.op \in {"update_table", "insert_into_table", "delete_from_table"}
          => /\ last'.ret.kind = "bool"
             /\ ( \/ last'.printed # ""
                  \/ (last'.executed /\ last'.table \notin Tables)
                  \/ (last'.executed /\ "bogus" \in DOMAIN last'.fields) )
                  => (~last'.ret.bool /\ last'.printed # "" /\ db' = db) ]_vars

C3_Witness ==
    /\ last.op = "update_table"
    /\ last.table \in Tables
    /\ "bogus" \in DOMAIN last.fields
    /\ last.printed = "Error updating table"
    /\ last.ret = RetBool(FALSE)
    /\ \E r \in db[last.table] : r.id = last.id

\* C4: delete_from_table returns false and changes nothing when no row has
\* the id; when a row has it the call returns true and a get_by_id for that
\* id on the resulting store finds no row.
C4_DeleteThenGetById ==
    [][ last'.op = "delete_from_table"
          => LET t == last'.table
                 exists == t \in Tables /\ \E r \in db[t] : r.id = last'.id
             IN  /\ ~exists => (last'.ret = RetBool(FALSE) /\ db' = db)
                 /\ exists  => /\ last'.ret = RetBool(TRUE)
                               /\ GetById(db', t, last'.id) = RetNone
                               /\ \A r \in db[t] : r.id # last'.id => r \in db'[t] ]_vars

C4_Witness ==
    /\ last.op = "delete_from_table"
    /\ last.ret = RetBool(TRUE)
    /\ GetById(db, last.table, last.id) = RetNone
    /\ db[last.table] # {}

\* C5: with an empty field mapping update_table and insert_into_table return
\* false at once: no row changes, no statement is executed, nothing is
\* printed, and the connection is not created if it did not exist.
C5_EmptyMappingTouchesNothing ==
    [][ (last'.op \in {"update_table", "insert_into_table"} /\ DOMAIN last'.fields = {})
          => /\ last'.ret = RetBool(FALSE)
             /\ ~last'.executed
             /\ last'.printed = ""
             /\ db' = db
             /\ _conn' = _conn
             /\ connects' = connects ]_vars

C5_Witness ==
    /\ last.op \in {"update_table", "insert_into_table"}
    /\ DOMAIN last.fields = {}
    /\ last.ret = RetBool(FALSE)
    /\ _conn = NoConn
    /\ connects = 0

\* C6 as stated: on an existing table and a non-empty mapping of existing
\* columns, update_table returns true if and only if a row's values changed.
C6_TrueIffChanged ==
    [][ ( /\ last'.op = "update_table"
          /\ last'.table \in Tables
          /\ DOMAIN last'.fields # {}
          /\ DOMAIN last'.fields \subseteq Columns )
          => (last'.ret.bool <=> db' # db) ]_vars

\* C6 amended: on an existing table and a non-empty mapping of existing
\* columns, update_table returns true if and only if a row has the given id
\* and the statement does not fail on it (a supplied id is not NULL and is
\* not the id of another row), whether or not the row's values changed.
C6_TrueIffMatched ==
    [][ ( /\ last'.op = "update_table"
          /\ last'.table \in Tables
          /\ DOMAIN last'.fields # {}
          /\ DOMAIN last'.fields \subseteq Columns )
          => LET f == last'.fields
                 S == db[last'.table]
                 matched == \E r \in S : r.id = last'.id
                 clash == /\ "id" \in DOMAIN f
                          /\ \/ f["id"] = None
                             \/ \E q \in S : q.id # last'.id /\ q.id = f["id"]
             IN  /\ last'.ret.kind = "bool"
                 /\ last'.ret.bool <=> (matched /\ ~clash)
                 /\ ~matched => db' = db ]_vars

C6_Witness ==
    /\ last.op = "update_table"
    /\ last.ret = RetBool(TRUE)
    /\ last.reported = 1
    /\ DOMAIN last.fields = {"name"}
    /\ last.fields["name"] # None
    /\ \E r \in db[last.table] : r.id = last.id /\ r.name = last.fields["name"]

\* C7: with a non-empty mapping insert_into_table returns true if and only
\* if the call added a row; it never returns false after inserting one.
C7_TrueIffInserted ==
    [][ (last'.op = "insert_into_table" /\ DOMAIN last'.fields # {})
          => (last'.ret.bool <=> db' # db) ]_vars

\* C8: on an existing table and a non-empty predicate set over existing
\* columns, get_by_expression returns the rows for which at least one
\* predicate column = value is true (in SQL, so never for NULL): each of
\* them once, whatever the number of predicates it satisfies, and no other.
C8_UnionOfMatches ==
    ( /\ last.op = "get_by_expression"
      /\ last.table \in Tables
      /\ DOMAIN last.fields # {}
      /\ DOMAIN last.fields \subseteq Columns )
        => LET f == last.fields
               rows == last.ret.rows
               any(r) == \E c \in DOMAIN f : f[c] # None /\ r[c] = f[c]
               times(r) == Cardinality({i \in 1..Len(rows) : rows[i] = r})
           IN  /\ last.ret.kind = "rows"
               /\ \A i \in 1..Len(rows) : rows[i] \in db[last.table]
               /\ \A r \in db[last.table] : times(r) = IF any(r) THEN 1 ELSE 0

C8_Witness ==
    /\ last.op = "get_by_expression"
    /\ last.table \in Tables
    /\ DOMAIN last.fields = {"id", "name"}
    /\ Len(last.ret.rows) = 2
    /\ \E i, j \in 1..Len(last.ret.rows) :
         /\ last.ret.rows[i].id = last.fields["id"]
         /\ last.ret.rows[i].name = last.fields["name"]
         /\ last.ret.rows[j].id # last.fields["id"]
         /\ last.ret.rows[j].name = last.fields["name"]

\* C9: the connection is created at most once, by the first call that needs
\* it; once _conn is set no call reassigns or resets it, and every call that
\* executes a statement runs on it.
C9_SingletonConnection ==
    [][ /\ _conn # NoConn => _conn' = _conn
        /\ connects' <= 1
        /\ connects' # connects => (_conn = NoConn /\ _conn' # NoConn)
        /\ last'.executed => _conn' # NoConn ]_vars

C9_Witness ==
    /\ connects = 1
    /\ _conn # NoConn
    /\ last.op = "delete_from_table"
    /\ last.ret = RetBool(TRUE)

\* C10: after update_table with a non-empty mapping returns true, each row
\* that had the given id holds the supplied value in every named column and
\* its old value in every other column; rows with another id, and the other
\* tables, are unchanged.
C10_UpdateFrame ==
    [][ (last'.op = "update_table" /\ DOMAIN last'.fields # {} /\ last'.ret.bool)
          => LET t == last'.table
                 f == last'.fields
             IN  /\ t \in Tables
                 /\ \A r \in db[t] : r.id # last'.id => r \in db'[t]
                 /\ \A r \in db[t] : r.id = last'.id =>
                      \E w \in db'[t] :
                         /\ \A c \in DOMAIN f : w[c] = f[c]
                         /\ \A c \in Columns \ DOMAIN f : w[c] = r[c]
                 /\ Cardinality(db'[t]) = Cardinality(db[t])
                 /\ \A u \in Tables \ {t} : db'[u] = db[u] ]_vars

C10_Witness ==
    /\ last.op = "update_table"
    /\ last.ret = RetBool(TRUE)
    /\ DOMAIN last.fields = {"id"}
    /\ last.fields["id"] # last.id
    /\ \E r \in db[last.table] : r.id = last.fields["id"] /\ r.name # None
    /\ \E r \in db[last.table] : r.id # last.fields["id"] /\ r.name # None

====
